---- MODULE Spec2Model ----
(***************************************************************************)
(* Request/authentication pipeline of the Keycloak client                  *)
(* (src/keycloak.go): the three constructors, Client.newRequest (the       *)
(* Request Builder, with its admin token acquisition) and Client.do (the   *)
(* Executor).                                                              *)
(*                                                                         *)
(* Spec   : concurrent callers of newRequest on one shared Client.         *)
(* SpecDo : calls of do, with the caller's context cancelled concurrently. *)
(*                                                                         *)
(* A Go pointer is a sequence: <<>> is nil, <<x>> points at x.             *)
(* A Go error is a record; kind "nil" is the nil error.                    *)
(***************************************************************************)
EXTENDS Integers, Sequences, FiniteSets, TLC

VARIABLES
    client,        \* the shared *Client (configuration fields)
    ctor,          \* which constructor built it
    adminOIDC,     \* Client.adminOIDC.AccessToken, the shared token slot
    pc,            \* per caller: position inside newRequest
    call,          \* per caller: isAdminRequest and h.authorization of the current call
    pending,       \* per caller: the local req of newRequest
    grant,         \* per caller: the local adminGrant handed to GetOIDCToken
    fetched,       \* per caller: the local (token, err) GetOIDCToken returned
    ret,           \* per caller: what newRequest returned
    acq,           \* per caller: token acquisitions made by the current call
    adminCalls,    \* admin-flagged calls that got past URL resolution and encoding
    tokenFetches,  \* token acquisitions performed on the Client
    calls,         \* newRequest calls made so far
    doPc,          \* position inside do
    ctx,           \* state of the ctx argument of do
    v,             \* kind of the decode target passed to do
    resp,          \* resp returned by httpClient.Do
    terr,          \* err returned by httpClient.Do
    bodyClosed,    \* whether resp.Body is closed
    vContent,      \* what has been stored into / written to v
    result         \* what do returned

vars == <<client, ctor, adminOIDC, pc, call, pending, grant, fetched, ret, acq,
          adminCalls, tokenFetches, calls,
          doPc, ctx, v, resp, terr, bodyClosed, vContent, result>>

builderVars == <<client, ctor, adminOIDC, pc, call, pending, grant, fetched, ret,
                 acq, adminCalls, tokenFetches, calls>>

doVars == <<doPc, ctx, v, resp, terr, bodyClosed, vContent, result>>

----------------------------------------------------------------------------
(* Bounds *)

MaxCalls == 2

\* The goroutines that call newRequest on the one shared Client.
Callers == {"c1", "c2"}

----------------------------------------------------------------------------
(* Constants of the source *)

formEncoded == "application/x-www-form-urlencoded"
passwordGrant == "password"
clientGrant == "client_credentials"
offlineScope == "offline_access"
jsonContentType == "application/json"
ErrorStatusFrom == 300

----------------------------------------------------------------------------
(* Errors *)

NilErr == [kind |-> "nil", what |-> "", Response |-> <<>>, Message |-> ""]

Err(kind, what) == [kind |-> kind, what |-> what, Response |-> <<>>, Message |-> ""]

----------------------------------------------------------------------------
(* Client construction *)

newClient(hasOfflineAccess, isServiceAccount, isConfidential, clientID, clientSecret, adminAccount, adminPass) ==
    [hasOfflineAccess |-> hasOfflineAccess,
     isServiceAccount |-> isServiceAccount,
     isConfidential   |-> isConfidential,
     clientID         |-> clientID,
     clientSecret     |-> clientSecret,
     adminAccount     |-> adminAccount,
     adminPass        |-> adminPass]

NewServiceAccount(hasOfflineAccess, clientID, clientSecret) ==
    newClient(hasOfflineAccess, TRUE, TRUE, clientID, clientSecret, "", "")

\* A NewConfidentialAdmin that flags the client as a service account.
NewConfidentialAdminAsService(hasOfflineAccess, clientID, clientSecret, adminAccount, adminPass) ==
    newClient(hasOfflineAccess, TRUE, TRUE, clientID, clientSecret, adminAccount, adminPass)

NewConfidentialAdmin(hasOfflineAccess, clientID, clientSecret, adminAccount, adminPass) ==
    newClient(hasOfflineAccess, FALSE, TRUE, clientID, clientSecret, adminAccount, adminPass)

NewPublicAdmin(hasOfflineAccess, clientID, adminAccount, adminPass) ==
    newClient(hasOfflineAccess, FALSE, FALSE, clientID, "", adminAccount, adminPass)

\* Values the constructors are called with.
ClientIDs == {"my-client"}
ClientSecrets == {"s3cret"}
AdminAccounts == {"admin"}
AdminPasses == {"hunter2"}

Constructed ==
    {[ctor |-> "NewServiceAccount", c |-> NewServiceAccount(o, id, s)] :
        o \in BOOLEAN, id \in ClientIDs, s \in ClientSecrets}
    \cup
    {[ctor |-> "NewConfidentialAdmin", c |-> NewConfidentialAdmin(o, id, s, a, pw)] :
        o \in BOOLEAN, id \in ClientIDs, s \in ClientSecrets,
        a \in AdminAccounts, pw \in AdminPasses}
    \cup
    {[ctor |-> "NewPublicAdmin", c |-> NewPublicAdmin(o, id, a, pw)] :
        o \in BOOLEAN, id \in ClientIDs, a \in AdminAccounts, pw \in AdminPasses}

----------------------------------------------------------------------------
(* newRequest: arguments *)

\* Relative paths; the second has no parsable form ("missing protocol scheme").
Paths == {"realms/demo/users", ":realms"}
MalformedPaths == {":realms"}

\* Bodies: nil, a struct (encodes either way), a channel (encodes neither way:
\* query.Values expects a struct, JSON has no encoding for a channel).
Bodies == {"nil", "struct", "chan"}

ContentTypeHints == {"", formEncoded}
AuthorizationHints == {"", "Basic dXNlcg=="}

Headers == [authorization : AuthorizationHints, contentType : ContentTypeHints]

\* Access tokens the token endpoint hands out ("" for an empty 200 body).
Tokens == {"", "tokA"}

NoCall == [isAdminRequest |-> FALSE, authorization |-> ""]

NoGrant == <<>>

NoFetch == [token |-> <<>>, err |-> NilErr]

NoRet == [req |-> <<>>, err |-> NilErr]

----------------------------------------------------------------------------
(* newRequest: lines 213-251 *)

\* c.baseURL.Parse(path)
baseURLParse(path) ==
    IF path \in MalformedPaths
    THEN [u |-> "", err |-> Err("URLResolutionError", "missing protocol scheme")]
    ELSE [u |-> path, err |-> NilErr]

\* query.Values(body)
queryValues(body) ==
    IF body = "struct"
    THEN NilErr
    ELSE Err("FormEncodingError", "query: Values() expects struct input")

\* json.NewEncoder(buf).Encode(body)
jsonEncode(body) ==
    IF body = "struct"
    THEN NilErr
    ELSE Err("JSONEncodingError", "json: unsupported type")

\* The request with its entity and its headers as lines 219-251 leave them.
buildRequest(path, body, h) ==
    LET u == baseURLParse(path)
        entity == IF h.contentType = formEncoded /\ body # "nil" THEN "form"
                  ELSE IF body # "nil" THEN "json"
                  ELSE "none"
        encErr == IF entity = "form" THEN queryValues(body)
                  ELSE IF entity = "json" THEN jsonEncode(body)
                  ELSE NilErr
        contentType == IF h.contentType # "" THEN h.contentType
                       ELSE IF body # "nil" THEN jsonContentType
                       ELSE ""
    IN  IF u.err.kind # "nil" THEN [req |-> <<>>, err |-> u.err]
        ELSE IF encErr.kind # "nil" THEN [req |-> <<>>, err |-> encErr]
        ELSE [req |-> <<[ContentType   |-> contentType,
                         Authorization |-> h.authorization]>>,
              err |-> NilErr]

----------------------------------------------------------------------------
(* newRequest: lines 252-284 *)

\* An acquisition that is skipped once the Client's token slot is filled.
acquiresTokenUnlessStored(isAdminRequest, slot) == isAdminRequest /\ slot = ""

\* Whether the call acquires a token (line 252).
acquiresToken(isAdminRequest, slot) == isAdminRequest

\* A scope that is attached in the password branch only.
grantScopePasswordOnly(c) ==
    IF c.hasOfflineAccess /\ ~(c.isConfidential /\ c.isServiceAccount)
    THEN offlineScope ELSE ""

\* Scope of the grant (lines 256-260).
grantScope(c) == IF c.hasOfflineAccess THEN offlineScope ELSE ""

\* The grant request handed to GetOIDCToken (lines 256-277).
adminGrant(c) ==
    IF c.isConfidential /\ c.isServiceAccount
    THEN [GrantType |-> clientGrant, Scope |-> grantScope(c),
          Username |-> "", Password |-> ""]
    ELSE [GrantType |-> passwordGrant, Scope |-> grantScope(c),
          Username |-> c.adminAccount, Password |-> c.adminPass]

\* A bearer header that gives way to the caller's authorization hint.
bearerHeaderUnlessHint(hint, token, slot) ==
    IF hint # "" THEN hint ELSE "Bearer " \o token

\* The Authorization header after line 283.
bearerHeader(hint, token, slot) == "Bearer " \o token

----------------------------------------------------------------------------
(* do: arguments and what the transport can answer *)

\* ctx: still active, cancelled, or past its deadline.
CtxStates == {"active", "canceled", "deadlineExceeded"}

\* ctx.Err()
ctxErr(c) ==
    IF c = "canceled" THEN Err("context", "context canceled")
    ELSE IF c = "deadlineExceeded" THEN Err("context", "context deadline exceeded")
    ELSE NilErr

\* v: nil, an io.Writer, or a pointer to a value to decode into.
Targets == {"nil", "writer", "target"}

StatusCodes == {200, 299, 300, 301, 400, 500}
RedirectCodes == {301}

\* Response bodies: "" ; {"error_description":"bad request"} ; {"id":"42"} ;
\* {"Response":null} ; a body that is not JSON ; a body whose read fails.
RespBodies == {"empty", "jsonDesc", "jsonOther", "jsonNullResponse",
               "malformed", "unreadable"}
JSONObjects == {"jsonDesc", "jsonOther", "jsonNullResponse"}

TransportError == Err("transport", "dial tcp: connection refused")
RedirectError == Err("transport", "stopped after 10 redirects")

\* c.httpClient.Do(req). net/http: the response is nil whenever the error is
\* not, except when CheckRedirect fails: then the redirect response comes with
\* the error and its Body is already closed.
httpClientDo ==
    {[resp |-> <<[StatusCode |-> s, Body |-> b]>>, err |-> NilErr, closed |-> FALSE] :
        s \in StatusCodes, b \in RespBodies}
    \cup {[resp |-> <<>>, err |-> TransportError, closed |-> FALSE]}
    \cup {[resp |-> <<[StatusCode |-> s, Body |-> b]>>, err |-> RedirectError,
           closed |-> TRUE] : s \in RedirectCodes, b \in RespBodies}

NoResult == [response |-> <<>>, err |-> NilErr]

----------------------------------------------------------------------------
(* do: lines 297-334 *)

\* A do that never looks at ctx.Done().
contextNeverWins(err, c) == FALSE

\* Lines 298-303: dispatch failed and ctx.Done() is closed.
contextWins(err, c) == err.kind # "nil" /\ c # "active"

\* A Close placed on the success paths only instead of a defer.
closeOnSuccessOnly(closed, exit) == exit # "errorStatus"

\* Line 305: the deferred resp.Body.Close() runs on every return after it.
deferredClose(closed, exit) == TRUE

\* Line 309.
isErrorStatus(code) == code >= ErrorStatusFrom

\* ioutil.ReadAll(resp.Body)
readAll(body, closed) ==
    IF closed THEN [data |-> "", isNil |-> FALSE,
                    err |-> Err("ReadError", "http: read on closed response body")]
    ELSE IF body = "unreadable"
         THEN [data |-> "", isNil |-> FALSE, err |-> Err("ReadError", "unexpected EOF")]
    ELSE [data |-> body, isNil |-> FALSE, err |-> NilErr]

\* json.Unmarshal(data, errorResponse): the key error_description fills
\* Message; the key Response matches the exported field Response, and null
\* sets that pointer to nil; data that is no JSON object changes nothing.
jsonUnmarshalError(data, e) ==
    IF data = "jsonDesc" THEN [e EXCEPT !.Message = "bad request"]
    ELSE IF data = "jsonNullResponse" THEN [e EXCEPT !.Response = <<>>]
    ELSE e

\* Lines 310-317: the ErrorResponse returned for a status >= 300.
errorResponse(r, closed) ==
    LET e0 == [kind |-> "ErrorResponse", what |-> "", Response |-> r, Message |-> ""]
        rd == readAll(r[1].Body, closed)
    IN  IF rd.err.kind = "nil" /\ ~rd.isNil
        THEN jsonUnmarshalError(rd.data, e0)
        ELSE e0

\* json.NewDecoder(resp.Body).Decode(v)
jsonDecode(body, closed) ==
    IF closed THEN [err |-> Err("ReadError", "http: read on closed response body"),
                    stored |-> FALSE]
    ELSE IF body = "unreadable"
         THEN [err |-> Err("ReadError", "unexpected EOF"), stored |-> FALSE]
    ELSE IF body = "empty" THEN [err |-> Err("EOF", "EOF"), stored |-> FALSE]
    ELSE IF body = "malformed"
         THEN [err |-> Err("SyntaxError", "invalid character"), stored |-> FALSE]
    ELSE [err |-> NilErr, stored |-> TRUE]

\* A decode error that is passed on as it is, EOF included.
keepEOF(decErr) == decErr

\* Lines 325-327: an empty response is no error.
ignoreEOF(decErr) == IF decErr.kind = "EOF" THEN NilErr ELSE decErr

\* io.Copy(w, resp.Body): what reaches the writer.
ioCopy(body, closed) ==
    IF closed \/ body \in {"unreadable", "empty"} THEN "unset" ELSE body

\* do from line 298 on, given what httpClient.Do returned.
doAfterDispatch(c, r, e, closed, target, content) ==
    IF contextWins(e, c)
    THEN [panicked |-> FALSE, response |-> <<>>, err |-> ctxErr(c),
          closed |-> closed, content |-> content]
    ELSE IF r = <<>>
    THEN [panicked |-> TRUE, response |-> <<>>, err |-> NilErr,
          closed |-> closed, content |-> content]
    ELSE IF isErrorStatus(r[1].StatusCode)
    THEN [panicked |-> FALSE, response |-> <<>>, err |-> errorResponse(r, closed),
          closed |-> closed \/ deferredClose(closed, "errorStatus"),
          content |-> content]
    ELSE IF target = "nil"
    THEN [panicked |-> FALSE, response |-> r, err |-> e,
          closed |-> closed \/ deferredClose(closed, "success"),
          content |-> content]
    ELSE IF target = "writer"
    THEN [panicked |-> FALSE, response |-> r, err |-> e,
          closed |-> closed \/ deferredClose(closed, "copy"),
          content |-> ioCopy(r[1].Body, closed)]
    ELSE LET d == jsonDecode(r[1].Body, closed)
             decErr == ignoreEOF(d.err)
         IN  [panicked |-> FALSE, response |-> r,
              err |-> IF decErr.kind # "nil" THEN decErr ELSE e,
              closed |-> closed \/ deferredClose(closed, "decode"),
              content |-> IF d.stored THEN r[1].Body ELSE content]

----------------------------------------------------------------------------
(* Initial state: a Client fresh from one of the three constructors *)

Init ==
    /\ \E k \in Constructed : client = k.c /\ ctor = k.ctor
    /\ adminOIDC = ""
    /\ pc = [p \in Callers |-> "idle"]
    /\ call = [p \in Callers |-> NoCall]
    /\ pending = [p \in Callers |-> <<>>]
    /\ grant = [p \in Callers |-> NoGrant]
    /\ fetched = [p \in Callers |-> NoFetch]
    /\ ret = [p \in Callers |-> NoRet]
    /\ acq = [p \in Callers |-> 0]
    /\ adminCalls = 0
    /\ tokenFetches = 0
    /\ calls = 0
    /\ doPc = "idle"
    /\ ctx = "active"
    /\ v = "nil"
    /\ resp = <<>>
    /\ terr = NilErr
    /\ bodyClosed = FALSE
    /\ vContent = "unset"
    /\ result = NoResult

\* A panic nobody recovers ends the whole program.
Crashed == (\E p \in Callers : pc[p] = "panicked") \/ doPc = "panicked"

----------------------------------------------------------------------------
(* newRequest *)

\* Entry of a call by caller p.
Enter(p, h, isAdminRequest) ==
    /\ ~Crashed
    /\ pc[p] \in {"idle", "returned"}
    /\ calls < MaxCalls
    /\ calls' = calls + 1
    /\ call' = [call EXCEPT ![p] = [isAdminRequest |-> isAdminRequest,
                                    authorization |-> h.authorization]]
    /\ fetched' = [fetched EXCEPT ![p] = NoFetch]
    /\ UNCHANGED <<client, ctor, adminOIDC>>
    /\ UNCHANGED doVars

\* Lines 214-216, 221-223, 231-233: return nil, err.
ReturnEarly(p, err) ==
    /\ ret' = [ret EXCEPT ![p] = [req |-> <<>>, err |-> err]]
    /\ pc' = [pc EXCEPT ![p] = "returned"]
    /\ pending' = [pending EXCEPT ![p] = <<>>]
    /\ grant' = [grant EXCEPT ![p] = NoGrant]
    /\ acq' = [acq EXCEPT ![p] = 0]
    /\ UNCHANGED <<adminCalls, tokenFetches>>

\* Lines 243-278 and 286: the headers are set; an admin request assembles its
\* grant and calls GetOIDCToken, any other request is returned.
Proceed(p, req, isAdminRequest) ==
    /\ adminCalls' = IF isAdminRequest THEN adminCalls + 1 ELSE adminCalls
    /\ acq' = [acq EXCEPT ![p] = 0]
    /\ UNCHANGED tokenFetches
    /\ IF acquiresToken(isAdminRequest, adminOIDC)
       THEN /\ pc' = [pc EXCEPT ![p] = "token"]
            /\ pending' = [pending EXCEPT ![p] = req]
            /\ grant' = [grant EXCEPT ![p] = <<adminGrant(client)>>]
            /\ ret' = [ret EXCEPT ![p] = NoRet]
       ELSE /\ pc' = [pc EXCEPT ![p] = "returned"]
            /\ pending' = [pending EXCEPT ![p] = <<>>]
            /\ grant' = [grant EXCEPT ![p] = NoGrant]
            /\ ret' = [ret EXCEPT ![p] = [req |-> req, err |-> NilErr]]

\* A newRequest that acquires the admin token before it looks at the URL and
\* the body: a failing admin call has then already been to the token endpoint.
NewRequestCallTokenFirst(p, path, body, h, isAdminRequest) ==
    /\ Enter(p, h, isAdminRequest)
    /\ LET b == buildRequest(path, body, h) IN
         IF b.err.kind # "nil" /\ isAdminRequest
         THEN /\ ret' = [ret EXCEPT ![p] = [req |-> <<>>, err |-> b.err]]
              /\ pc' = [pc EXCEPT ![p] = "returned"]
              /\ pending' = [pending EXCEPT ![p] = <<>>]
              /\ grant' = [grant EXCEPT ![p] = <<adminGrant(client)>>]
              /\ acq' = [acq EXCEPT ![p] = 1]
              /\ tokenFetches' = tokenFetches + 1
              /\ UNCHANGED adminCalls
         ELSE IF b.err.kind # "nil"
         THEN ReturnEarly(p, b.err)
         ELSE Proceed(p, b.req, isAdminRequest)

\* Lines 213-278: from entry up to the call of GetOIDCToken, or to the return
\* when the call fails earlier or is not an admin request.
NewRequestCall(p, path, body, h, isAdminRequest) ==
    /\ Enter(p, h, isAdminRequest)
    /\ LET b == buildRequest(path, body, h) IN
         IF b.err.kind # "nil"
         THEN ReturnEarly(p, b.err)
         ELSE Proceed(p, b.req, isAdminRequest)

\* c.Authentication.GetOIDCToken(context.Background(), adminGrant): one round
\* trip to the token endpoint through newRequest(isAdminRequest=false) and do.
\* It yields a token, or the error do reports, or do's panic; a fetched token
\* may overwrite the Client's token slot.
GetOIDCTokenErrors ==
    {Err("ErrorResponse", "401")}

GetOIDCToken(p) ==
    /\ ~Crashed
    /\ pc[p] = "token"
    /\ tokenFetches' = tokenFetches + 1
    /\ acq' = [acq EXCEPT ![p] = @ + 1]
    /\ \/ \E t \in Tokens :
            /\ fetched' = [fetched EXCEPT ![p] = [token |-> <<t>>, err |-> NilErr]]
            /\ adminOIDC' \in {adminOIDC, t}
            /\ pc' = [pc EXCEPT ![p] = "fetched"]
       \/ \E e \in GetOIDCTokenErrors :
            /\ fetched' = [fetched EXCEPT ![p] = [token |-> <<>>, err |-> e]]
            /\ pc' = [pc EXCEPT ![p] = "fetched"]
            /\ UNCHANGED adminOIDC
       \/ /\ pc' = [pc EXCEPT ![p] = "panicked"]
          /\ UNCHANGED <<fetched, adminOIDC>>
    /\ UNCHANGED <<client, ctor, call, pending, grant, ret, adminCalls, calls>>
    /\ UNCHANGED doVars

\* Lines 280-286: the token error is returned, or the bearer header is set and
\* the request returned.
NewRequestFinish(p) ==
    /\ ~Crashed
    /\ pc[p] = "fetched"
    /\ pc' = [pc EXCEPT ![p] = "returned"]
    /\ IF fetched[p].err.kind # "nil"
       THEN ret' = [ret EXCEPT ![p] = [req |-> <<>>, err |-> fetched[p].err]]
       ELSE ret' = [ret EXCEPT ![p] =
                [req |-> <<[pending[p][1] EXCEPT !.Authorization =
                              bearerHeader(call[p].authorization,
                                           fetched[p].token[1], adminOIDC)]>>,
                 err |-> NilErr]]
    /\ pending' = [pending EXCEPT ![p] = <<>>]
    /\ UNCHANGED <<client, ctor, adminOIDC, call, grant, fetched, acq,
                   adminCalls, tokenFetches, calls>>
    /\ UNCHANGED doVars

Next ==
    \/ \E p \in Callers, path \in Paths, body \in Bodies, h \in Headers,
          isAdminRequest \in BOOLEAN :
          NewRequestCall(p, path, body, h, isAdminRequest)
    \/ \E p \in Callers : GetOIDCToken(p)
    \/ \E p \in Callers : NewRequestFinish(p)

Spec == Init /\ [][Next]_vars

----------------------------------------------------------------------------
(* do *)

\* do is entered with a context (possibly done already) and a decode target.
DoCall(c, target) ==
    /\ doPc \in {"idle", "returned"}
    /\ doPc' = "called"
    /\ ctx' = c
    /\ v' = target
    /\ resp' = <<>>
    /\ terr' = NilErr
    /\ bodyClosed' = FALSE
    /\ vContent' = "unset"
    /\ result' = NoResult
    /\ UNCHANGED builderVars

\* The caller's context is cancelled, or its deadline passes, while do runs.
Cancel(how) ==
    /\ doPc \in {"called", "dispatched"}
    /\ ctx = "active"
    /\ ctx' = how
    /\ UNCHANGED <<doPc, v, resp, terr, bodyClosed, vContent, result>>
    /\ UNCHANGED builderVars

\* Line 297: c.httpClient.Do(req) returns.
Dispatch ==
    /\ doPc = "called"
    /\ \E o \in httpClientDo :
          /\ resp' = o.resp
          /\ terr' = o.err
          /\ bodyClosed' = o.closed
    /\ doPc' = "dispatched"
    /\ UNCHANGED <<ctx, v, vContent, result>>
    /\ UNCHANGED builderVars

\* Lines 298-334: do runs to its return, or to the nil dereference of line 305.
DoReturn ==
    /\ doPc = "dispatched"
    /\ LET d == doAfterDispatch(ctx, resp, terr, bodyClosed, v, vContent) IN
          /\ doPc' = IF d.panicked THEN "panicked" ELSE "returned"
          /\ result' = [response |-> d.response, err |-> d.err]
          /\ bodyClosed' = d.closed
          /\ vContent' = d.content
    /\ UNCHANGED <<ctx, v, resp, terr>>
    /\ UNCHANGED builderVars

NextDo ==
    \/ \E c \in CtxStates, target \in Targets : DoCall(c, target)
    \/ \E how \in CtxStates \ {"active"} : Cancel(how)
    \/ Dispatch
    \/ DoReturn

SpecDo == Init /\ [][NextDo]_vars

----------------------------------------------------------------------------
(* Properties of do (checked under SpecDo) *)

DoEnded == doPc \in {"returned", "panicked"}

\* C1: when the transport's dispatch returns an error and the caller's context
\* is not done, do returns to its caller with that same error and no success
\* value.
C1_TransportErrorSurfaced ==
    (DoEnded /\ terr.kind # "nil" /\ ctx = "active")
        => /\ doPc = "returned"
           /\ result.err = terr
           /\ result.response = <<>>

\* C2: a response dispatched without a transport error is classified by its
\* status code alone: status >= 300 gives a nil Response and an ErrorResponse
\* that holds the raw response, whatever the body; status < 300 gives a
\* non-nil Response and no ErrorResponse.
C2_ClassifiedByStatusAlone ==
    (doPc = "returned" /\ resp # <<>> /\ terr.kind = "nil")
        => IF resp[1].StatusCode >= 300
           THEN /\ result.response = <<>>
                /\ result.err.kind = "ErrorResponse"
                /\ result.err.Response = resp
           ELSE /\ result.response # <<>>
                /\ result.err.kind # "ErrorResponse"

\* C6: when the transport's dispatch returns an error and the caller's context
\* is already done, do returns a nil Response and the context's own error,
\* never the raw transport error.
C6_ContextErrorTakesPrecedence ==
    (DoEnded /\ terr.kind # "nil" /\ ctx # "active")
        => /\ doPc = "returned"
           /\ result.response = <<>>
           /\ result.err = ctxErr(ctx)
           /\ result.err # terr

C6_Witness ==
    /\ doPc = "returned"
    /\ terr = TransportError
    /\ ctx = "deadlineExceeded"
    /\ result.err.what = "context deadline exceeded"

\* C7: for a response with status < 300 and a decode target that is neither
\* nil nor a byte sink, do returns a non-nil Response, and its error follows
\* the body: an empty body gives a nil error and leaves the target as it was,
\* a body that decodes gives a nil error, a malformed body gives the decode
\* error.
C7_DecodeOutcomeFollowsBody ==
    (doPc = "returned" /\ resp # <<>> /\ resp[1].StatusCode < 300 /\ v = "target")
        => /\ result.response = resp
           /\ resp[1].Body = "empty"
                => (result.err.kind = "nil" /\ vContent = "unset")
           /\ resp[1].Body \in JSONObjects
                => (result.err.kind = "nil" /\ vContent = resp[1].Body)
           /\ resp[1].Body = "malformed"
                => result.err.kind = "SyntaxError"

C7_Witness ==
    /\ doPc = "returned"
    /\ resp # <<>>
    /\ resp[1].StatusCode = 299
    /\ resp[1].Body = "empty"
    /\ v = "target"
    /\ result.response # <<>>
    /\ result.err.kind = "nil"
    /\ vContent = "unset"

\* C10: whenever the transport's dispatch hands back a response, that
\* response's body has been closed by the time do returns, on every exit path.
C10_BodyClosedOnReturn ==
    (doPc = "returned" /\ resp # <<>>) => bodyClosed

C10_Witness ==
    /\ doPc = "returned"
    /\ resp # <<>>
    /\ resp[1].StatusCode = 500
    /\ result.err.kind = "ErrorResponse"
    /\ bodyClosed

----------------------------------------------------------------------------
(* Properties of newRequest (checked under Spec) *)

EarlyErrors == {"URLResolutionError", "FormEncodingError", "JSONEncodingError"}

\* C3: a request returned by an admin call carries "Bearer " followed by the
\* access token fetched during that call, whatever the authorization hint.
C3_AdminBearerOverridesHint ==
    \A p \in Callers :
        (pc[p] = "returned" /\ call[p].isAdminRequest /\ ret[p].req # <<>>)
            => /\ fetched[p].token # <<>>
               /\ ret[p].req[1].Authorization = "Bearer " \o fetched[p].token[1]

C3_Witness ==
    \E p \in Callers :
        /\ pc[p] = "returned"
        /\ call[p].isAdminRequest
        /\ call[p].authorization = "Basic dXNlcg=="
        /\ ret[p].req # <<>>
        /\ ret[p].req[1].Authorization = "Bearer tokA"

\* C4: the grant request assembled for an admin request matches the
\* constructor: NewServiceAccount gives client_credentials with empty Username
\* and Password; NewConfidentialAdmin and NewPublicAdmin give password with the
\* configured admin account and admin password.
C4_GrantMatchesConstructor ==
    \A p \in Callers :
        grant[p] # <<>>
            => IF ctor = "NewServiceAccount"
               THEN /\ grant[p][1].GrantType = "client_credentials"
                    /\ grant[p][1].Username = ""
                    /\ grant[p][1].Password = ""
               ELSE /\ grant[p][1].GrantType = "password"
                    /\ grant[p][1].Username = client.adminAccount
                    /\ grant[p][1].Password = client.adminPass

C4_Witness ==
    \E p \in Callers :
        /\ pc[p] = "token"
        /\ ctor = "NewConfidentialAdmin"
        /\ grant[p] # <<>>
        /\ grant[p][1].GrantType = "password"
        /\ grant[p][1].Username = "admin"

\* C5: the Scope of every assembled grant request depends only on
\* hasOfflineAccess: offline_access when it is true, empty when it is false,
\* under both grant types.
C5_ScopeFollowsOfflineAccess ==
    \A p \in Callers :
        grant[p] # <<>>
            => grant[p][1].Scope =
                   (IF client.hasOfflineAccess THEN "offline_access" ELSE "")

C5_Witness ==
    \E p \in Callers :
        /\ pc[p] = "token"
        /\ client.hasOfflineAccess
        /\ grant[p] # <<>>
        /\ grant[p][1].GrantType = "client_credentials"
        /\ grant[p][1].Scope = "offline_access"

\* C8: when newRequest fails on URL resolution or on body encoding it returns
\* the error with no request, and the call has made no token acquisition (its
\* only network access), admin-flagged or not.
C8_EarlyFailureBeforeNetwork ==
    \A p \in Callers :
        (pc[p] = "returned" /\ ret[p].err.kind \in EarlyErrors)
            => /\ ret[p].req = <<>>
               /\ acq[p] = 0
               /\ grant[p] = <<>>

C8_Witness ==
    \E p \in Callers :
        /\ pc[p] = "returned"
        /\ call[p].isAdminRequest
        /\ ret[p].err.kind = "JSONEncodingError"
        /\ ret[p].req = <<>>
        /\ acq[p] = 0

====
